---- MODULE Spec2Model ----
(***************************************************************************)
(* Model of keppy/estimate.py: the class OrbitalParams (construction, the  *)
(* Gaussian log-likelihood, the flat prior, the log-posterior, the         *)
(* maximum-likelihood driver and the emcee driver) and the chain           *)
(* summarisation of the module's __main__ block.                           *)
(*                                                                         *)
(* Numbers.  Parameters, times and velocities are integers.  Values of the *)
(* log-likelihood are kept in eighths (1/8): with uncertainties 1 and 2    *)
(* the quotient by rv_err**2 is then exact, and ln(2*pi*rv_err**2) is      *)
(* tabulated to the nearest even eighth so that the final "*= -0.5" is     *)
(* exact as well.  A float is a record: Fin(v) or NegInf.                  *)
(*                                                                         *)
(* Indices.  Python sequences are 0-based; At(s, i) reads s[i] of the      *)
(* source.                                                                 *)
(***************************************************************************)
EXTENDS Integers, Sequences, FiniteSets, TLC

\* ------------------------------------------------------------------ bounds

\* How far beyond a bound, and how far inside it, an evaluated coordinate lies.
MaxBeyond == 1
\* Largest nwalkers and nsteps handed to emcee_orbit.
MaxWalkers == 2
MaxSteps == 2
\* Largest maxiter handed to ml_orbit.
MaxIter == 2

\* Number of orbital parameters: log_k, log_period, t0, w, log_e ("5 + n_datasets").
NOrbital == 5

VARIABLES
    status,   \* "unbuilt" | "built" | "raised": outcome of OrbitalParams(...)
    self,     \* the estimator: n_datasets, t, rv, rv_err, guess, bounds
    ctor,     \* the arguments the constructor was called with
    exc,      \* the exception the constructor raised ("none" when it returned)
    call,     \* the current or last call on the estimator and what it returned
    sampler,  \* the emcee.EnsembleSampler built by emcee_orbit
    work,     \* per sampler thread: the lnprob evaluation it is in
    script    \* the summarisation pipeline of __main__ on the returned sampler

vars == <<status, self, ctor, exc, call, sampler, work, script>>

\* ------------------------------------------------------------------ floats

Fin(v) == [k |-> "fin", v |-> v]
NegInf == [k |-> "-inf", v |-> 0]

\* np.isfinite
isfinite(x) == x.k = "fin"

\* float addition; -inf absorbs
FAdd(a, b) == IF isfinite(a) /\ isfinite(b) THEN Fin(a.v + b.v) ELSE NegInf

At(s, i) == s[i + 1]

RECURSIVE SumSeq(_)
\* np.sum of a one-dimensional array
SumSeq(s) == IF s = <<>> THEN 0 ELSE Head(s) + SumSeq(Tail(s))

\* ------------------------------------------------------------------ inputs

NoEstimator == [n_datasets |-> -1]
NoCall == [op |-> "none"]
NoSampler == [state |-> "none"]
NoScript == [pc |-> "start", steps |-> <<>>]

\* Two measurement campaigns of different lengths (a ragged collection).
DatasetA == [t |-> <<1>>, rv |-> <<0>>, rv_err |-> <<1>>]
DatasetB == [t |-> <<1, 2>>, rv |-> <<1, -1>>, rv_err |-> <<2, 1>>]

\* The collections of n datasets the caller passes: A and B alternating,
\* starting with either (with A when there are more than two).
DataInputs(n) ==
    { [i \in 1..n |-> IF (i + first) % 2 = 0 THEN DatasetA ELSE DatasetB] :
        first \in (IF n <= 2 THEN {1, 2} ELSE {1}) }

\* n_datasets as passed: an int, or something that is not an int.
NDatasetsInputs ==
    { [isint |-> TRUE, v |-> n] : n \in {-1, 0, 1, 2, 3, 5} } \cup { [isint |-> FALSE, v |-> 2] }

\* The bounds of the five orbital parameters, in the order of the default
\* ((-4, 4), (-4, 4), (0, 10000), (0, 360), (-4, -4.3E-5)); the caller passes
\* integer bounds, the last upper bound being 0.
BoundsInput == << <<-4, 4>>, <<-4, 4>>, <<0, 10000>>, <<0, 360>>, <<-4, 0>> >>

\* One (low, high) pair for a velocity offset.
VzPair == <<-2, 2>>

\* bounds_vz as passed: the pair itself when n_datasets == 1, else a tuple of
\* pairs, which the constructor does not count: one fewer than, exactly, or one
\* more than n_datasets.
BoundsVzInputs(n) ==
    IF n = 1 THEN { VzPair }
    ELSE { [i \in 1..m |-> VzPair] : m \in {n - 1, n, n + 1} \cap Nat }

\* Number of (low, high) pairs in bounds_vz as passed.
VzPairs(n, bounds_vz) == IF n = 1 THEN 1 ELSE Len(bounds_vz)

\* A guess of a given length: log_k, log_period, t0, w, log_e, then offsets 0.
GuessOfLen(len) ==
    [j \in 1..len |-> IF j <= NOrbital THEN <<0, 0, 1, 1, -1>>[j] ELSE 0]

\* The guesses the caller passes: one too short, exact, one too long.
GuessInputs(n) == { GuessOfLen(len) : len \in {NOrbital + n - 1, NOrbital + n, NOrbital + n + 1} }

\* ------------------------------------------------------------ construction

\* A constructor that rejects only a guess that is too short.
GuessRejected_short_only(n_datasets, guess) == Len(guess) < 5 + n_datasets

\* lines 70 and 80: the test that both branches of __init__ make on guess
GuessRejected(n_datasets, guess) == Len(guess) # 5 + n_datasets

\* A constructor that concatenates bounds_vz in the single-dataset branch too.
StoredBounds_concatenated(n_datasets, bounds, bounds_vz) == bounds \o bounds_vz

\* lines 75 and 85: self.bounds, by branch
StoredBounds(n_datasets, bounds, bounds_vz) ==
    IF n_datasets = 1
    THEN bounds \o <<bounds_vz>>
    ELSE bounds \o bounds_vz

\* OrbitalParams.__init__
Construct(t, rv, rv_err, guess, bounds_vz, bounds, n_datasets) ==
    /\ status = "unbuilt"
    /\ ctor' = [n_datasets |-> n_datasets,
                guess_len |-> Len(guess),
                vz_pairs |-> VzPairs(n_datasets.v, bounds_vz)]
    /\ IF ~n_datasets.isint
       THEN /\ status' = "raised"
            /\ exc' = "TypeError: n_datasets must be int"
            /\ self' = NoEstimator
       ELSE IF n_datasets.v < 0
       THEN /\ status' = "raised"
            /\ exc' = "ValueError: n_datasets must be greater than zero"
            /\ self' = NoEstimator
       ELSE IF GuessRejected(n_datasets.v, guess)
       THEN /\ status' = "raised"
            /\ exc' = "ValueError: guess must have a length equal to 5 + n_datasets"
            /\ self' = NoEstimator
       ELSE /\ status' = "built"
            /\ exc' = "none"
            /\ self' = [n_datasets |-> n_datasets.v,
                        t |-> t, rv |-> rv, rv_err |-> rv_err,
                        guess |-> guess,
                        bounds |-> StoredBounds(n_datasets.v, bounds, bounds_vz)]
    /\ UNCHANGED <<call, sampler, work, script>>

\* ---------------------------------------------------------------- evaluators

\* keppy.orbit.BinarySystem(log_k, log_period, t0, w, log_e, vz).get_rvs(ts, nt):
\* deterministic, one velocity per time, the systemic velocity vz a term of it.
get_rvs(log_k, log_period, t0, w, log_e, vz, ts) ==
    [k \in 1..Len(ts) |->
        vz + (((log_k + 2 * log_period + t0 + w + 3 * log_e) * ts[k]) % 3) - 1]

\* np.log(2. * np.pi / inv_sigma2) in eighths, by rv_err (1 or 2)
LogTwoPiSigma2(rv_err) == <<14, 26>>[rv_err]

\* A loop body that gives every dataset the offset of the first, theta[5].
DatasetTerm_first_offset(slf, theta, i) ==
    LET model == get_rvs(At(theta, 0), At(theta, 1), At(theta, 2), At(theta, 3),
                         At(theta, 4), At(theta, 5), At(slf.t, i))
        rv == At(slf.rv, i)
        rv_err == At(slf.rv_err, i)
    IN SumSeq([k \in 1..Len(model) |->
                  ((rv[k] - model[k]) * (rv[k] - model[k]) * 8) \div (rv_err[k] * rv_err[k])
                  + LogTwoPiSigma2(rv_err[k])])

\* lines 106-113, the body of the loop for dataset i: what it adds to sum_like
DatasetTerm(slf, theta, i) ==
    LET model == get_rvs(At(theta, 0), At(theta, 1), At(theta, 2), At(theta, 3),
                         At(theta, 4), At(theta, 5 + i), At(slf.t, i))
        rv == At(slf.rv, i)
        rv_err == At(slf.rv_err, i)
    IN SumSeq([k \in 1..Len(model) |->
                  ((rv[k] - model[k]) * (rv[k] - model[k]) * 8) \div (rv_err[k] * rv_err[k])
                  + LogTwoPiSigma2(rv_err[k])])

RECURSIVE LikeLoop(_, _, _)
\* lines 103-113: the loop from dataset i on; sum_like and the orbit models built
LikeLoop(slf, theta, i) ==
    IF i >= slf.n_datasets
    THEN [sum_like |-> 0, systems |-> 0]
    ELSE LET rest == LikeLoop(slf, theta, i + 1)
         IN [sum_like |-> DatasetTerm(slf, theta, i) + rest.sum_like,
             systems |-> 1 + rest.systems]

\* OrbitalParams.lnlike: the value, and the calls made on the way
lnlike(slf, theta) ==
    LET loop == LikeLoop(slf, theta, 0)
    IN [ret |-> Fin((-1 * loop.sum_like) \div 2),
        lnlike_calls |-> 1,
        orbit_calls |-> loop.systems]

\* A prior that lets a coordinate sit on its bound.
flat_closed(slf, theta) ==
    IF \A i \in 1..Len(theta) :
          slf.bounds[i][1] <= theta[i] /\ theta[i] <= slf.bounds[i][2]
    THEN Fin(0)
    ELSE NegInf

\* OrbitalParams.flat
flat(slf, theta) ==
    LET params == [i \in 1..Len(theta) |->
                      slf.bounds[i][1] < theta[i] /\ theta[i] < slf.bounds[i][2]]
    IN IF \A i \in 1..Len(theta) : params[i]
       THEN Fin(0)
       ELSE NegInf

\* A posterior that evaluates the likelihood before it looks at the prior.
lnprob_eager(slf, theta) ==
    LET like == lnlike(slf, theta)
        lp == flat(slf, theta)
    IN [ret |-> FAdd(lp, like.ret),
        lnlike_calls |-> like.lnlike_calls,
        orbit_calls |-> like.orbit_calls]

\* A posterior that adds the likelihood to itself instead of to the prior.
lnprob_doubled(slf, theta) ==
    LET lp == flat(slf, theta)
    IN IF ~isfinite(lp)
       THEN [ret |-> NegInf, lnlike_calls |-> 0, orbit_calls |-> 0]
       ELSE LET like == lnlike(slf, theta)
            IN [ret |-> FAdd(like.ret, like.ret),
                lnlike_calls |-> like.lnlike_calls,
                orbit_calls |-> like.orbit_calls]

\* OrbitalParams.lnprob: the value, and the calls made on the way
lnprob(slf, theta) ==
    LET lp == flat(slf, theta)
    IN IF ~isfinite(lp)
       THEN [ret |-> NegInf, lnlike_calls |-> 0, orbit_calls |-> 0]
       ELSE LET like == lnlike(slf, theta)
            IN [ret |-> FAdd(lp, like.ret),
                lnlike_calls |-> like.lnlike_calls,
                orbit_calls |-> like.orbit_calls]

\* The estimators on which the caller runs an estimation: those whose bounds
\* pair up with the guess.  (On the others flat indexes past the bounds, or the
\* minimizer refuses x0 against the bounds.)
CallerPre == status = "built" /\ Len(self.bounds) = Len(self.guess)

\* Values tried for a coordinate bounded by b = (low, high): around and on
\* each bound.
AltVals(b) == (b[1] - MaxBeyond .. b[1] + MaxBeyond) \cup (b[2] - MaxBeyond .. b[2] + MaxBeyond)

\* The parameter vectors handed to the evaluators: of length 5 + n_datasets,
\* the stored guess, or the guess with one coordinate replaced.
ThetaInputs(slf) ==
    { slf.guess } \cup
    UNION { { [slf.guess EXCEPT ![j] = v] : v \in AltVals(slf.bounds[j]) } : j \in 1..Len(slf.guess) }

\* No call is in progress on the estimator (every call blocks its caller).
Idle == sampler.state # "running"

\* a call of lnlike(theta) by the caller
Call_lnlike(theta) ==
    /\ CallerPre /\ Idle
    /\ call' = [op |-> "lnlike", theta |-> theta] @@ lnlike(self, theta)
    /\ sampler' = NoSampler /\ work' = <<>> /\ script' = NoScript
    /\ UNCHANGED <<status, self, ctor, exc>>

\* a call of flat(theta) by the caller
Call_flat(theta) ==
    /\ CallerPre /\ Idle
    /\ call' = [op |-> "flat", theta |-> theta, ret |-> flat(self, theta)]
    /\ sampler' = NoSampler /\ work' = <<>> /\ script' = NoScript
    /\ UNCHANGED <<status, self, ctor, exc>>

\* a call of lnprob(theta) by the caller
Call_lnprob(theta) ==
    /\ CallerPre /\ Idle
    /\ call' = [op |-> "lnprob", theta |-> theta] @@ lnprob(self, theta)
    /\ sampler' = NoSampler /\ work' = <<>> /\ script' = NoScript
    /\ UNCHANGED <<status, self, ctor, exc>>

\* ------------------------------------------------- maximum-likelihood driver

\* What scipy.optimize.minimize(method='TNC') may report: how it ended, and
\* (below) a point of the box, the guess or a corner, after no iteration or
\* after maxiter.
MinimizerEndings ==
    { <<TRUE, "Converged (|f_n-f_(n-1)| ~= 0)">>,
      <<FALSE, "Max. number of function evaluations reached">>,
      <<FALSE, "Linear search failed">> }

MinimizerResults(x0, bounds, maxiter) ==
    { [x |-> x, nit |-> nit, success |-> e[1], message |-> e[2]] :
        x \in { x0, [j \in 1..Len(bounds) |-> bounds[j][1]], [j \in 1..Len(bounds) |-> bounds[j][2]] },
        nit \in {0, maxiter},
        e \in MinimizerEndings }

\* disp as passed: True, False, or a true value that is not the object True
DispInputs == {"True", "False", "1"}

\* A driver that raises when the minimizer reports no success.
ml_orbit_outcome_strict(disp, result) ==
    IF result.success
    THEN [raised |-> "none",
          printed |-> IF disp = "True"
                      THEN <<result.nit, result.success, result.message>>
                      ELSE <<>>,
          ret |-> result.x]
    ELSE [raised |-> "RuntimeError", printed |-> <<>>, ret |-> <<>>]

\* lines 141-146 of ml_orbit: what it prints and what it hands back
ml_orbit_outcome(disp, result) ==
    [raised |-> "none",
     printed |-> IF disp = "True"
                 THEN <<result.nit, result.success, result.message>>
                 ELSE <<>>,
     ret |-> result.x]

\* OrbitalParams.ml_orbit; result is what the minimizer reports for
\* fun=nll, x0=self.guess, bounds=self.bounds, options maxiter and disp
ml_orbit(maxiter, disp, result) ==
    /\ CallerPre /\ Idle
    /\ result \in MinimizerResults(self.guess, self.bounds, maxiter)
    /\ call' = [op |-> "ml_orbit", maxiter |-> maxiter, disp |-> disp, result |-> result]
                 @@ ml_orbit_outcome(disp, result)
    /\ sampler' = NoSampler /\ work' = <<>> /\ script' = NoScript
    /\ UNCHANGED <<status, self, ctor, exc>>

\* ------------------------------------------------------------- MCMC driver

\* nthreads as passed
ThreadInputs == {1, 2}

\* np.random.randn(ndim) per walker, scaled: two outcomes of the draws, which
\* move walker i along coordinate i + seed (counted round the vector), up or down
JitterInputs(ndim, nwalkers) ==
    { [i \in 1..nwalkers |->
         [j \in 1..ndim |-> IF j = ((i + seed) % ndim) + 1
                             THEN (IF (i + seed) % 2 = 0 THEN 1 ELSE -1)
                             ELSE 0]] : seed \in {1, 2} }

\* lines 209-210: pos, one row per walker
walker_positions(guess, jitter, ndim, nwalkers) ==
    [i \in 1..nwalkers |-> [j \in 1..ndim |-> guess[j] + jitter[i][j]]]

\* line 212-213: which method the sampler is given as its log-probability
sampler_lnprobfn == "lnprob"

\* A driver that cuts the first step off the chain before handing it back
\* (the line left as a comment at 215).
emcee_orbit_result_cut(smp) == [smp EXCEPT !.state = "returned", !.chain = Tail(@)]

\* line 216: what emcee_orbit hands back of the sampler that ran
emcee_orbit_result(smp) == [smp EXCEPT !.state = "returned"]

\* The moves the sampler may propose in one step: every walker to the guess,
\* but for at most one, which is sent onto the upper bound of log_e.
Proposals(slf, nwalkers) ==
    { [k \in 1..nwalkers |-> IF k = out THEN [slf.guess EXCEPT ![5] = slf.bounds[5][2]]
                                         ELSE slf.guess] : out \in 0..nwalkers }

\* OrbitalParams.emcee_orbit up to the start of sampler.run_mcmc(pos, nsteps);
\* prop is the sampler's first proposal per walker
emcee_orbit(nwalkers, nsteps, nthreads, jitter, prop) ==
    /\ CallerPre /\ Idle
    /\ LET ndim == 5 + self.n_datasets
           pos == walker_positions(self.guess, jitter, ndim, nwalkers)
       IN sampler' = [state |-> "running",
                      nwalkers |-> nwalkers, dim |-> ndim,
                      lnprobfn |-> sampler_lnprobfn, threads |-> nthreads,
                      runs |-> 1, nsteps |-> nsteps,
                      pos0 |-> pos, pos |-> pos,
                      prop |-> prop, todo |-> 1..nwalkers, lnp |-> <<>>,
                      chain |-> <<>>]
    /\ work' = [w \in 1..nthreads |-> [stage |-> "idle"]]
    /\ call' = [op |-> "emcee_orbit", nwalkers |-> nwalkers, nsteps |-> nsteps,
                nthreads |-> nthreads, returned |-> FALSE]
    /\ script' = NoScript
    /\ UNCHANGED <<status, self, ctor, exc>>

\* A sampler thread takes the next proposal (walker k's) and calls the
\* log-probability function on it: lnprob up to its early return (lines 182-184)
worker_begin(w) ==
    /\ sampler.state = "running"
    /\ work[w].stage = "idle"
    /\ sampler.todo # {}
    /\ LET k == CHOOSE k \in sampler.todo : \A other \in sampler.todo : k <= other
           theta == sampler.prop[k]
           lp == IF sampler.lnprobfn = "lnprob" THEN flat(self, theta) ELSE Fin(0)
       IN IF ~isfinite(lp)
          THEN /\ sampler' = [sampler EXCEPT !.todo = @ \ {k}, !.lnp = (k :> NegInf) @@ @]
               /\ UNCHANGED work
          ELSE /\ sampler' = [sampler EXCEPT !.todo = @ \ {k}]
               /\ work' = [work EXCEPT ![w] = [stage |-> "like", k |-> k, theta |-> theta, lp |-> lp]]
    /\ UNCHANGED <<status, self, ctor, exc, call, script>>

\* An evaluation that caches its theta and its result on the estimator.
worker_lnlike_caching(w) ==
    /\ sampler.state = "running"
    /\ work[w].stage = "like"
    /\ sampler' = [sampler EXCEPT
                     !.lnp = (work[w].k :> FAdd(work[w].lp, lnlike(self, work[w].theta).ret)) @@ @]
    /\ work' = [work EXCEPT ![w] = [stage |-> "idle"]]
    /\ self' = [last_theta |-> work[w].theta,
                last_lnprob |-> FAdd(work[w].lp, lnlike(self, work[w].theta).ret)] @@ self
    /\ UNCHANGED <<status, ctor, exc, call, script>>

\* The thread finishes the evaluation: lnprob's line 185
worker_lnlike(w) ==
    /\ sampler.state = "running"
    /\ work[w].stage = "like"
    /\ sampler' = [sampler EXCEPT
                     !.lnp = (work[w].k :> FAdd(work[w].lp, lnlike(self, work[w].theta).ret)) @@ @]
    /\ work' = [work EXCEPT ![w] = [stage |-> "idle"]]
    /\ UNCHANGED <<status, self, ctor, exc, call, script>>

\* All proposals of the step are evaluated: the sampler accepts or rejects each
\* (never one of log-probability -inf), stores the positions as the next step
\* of the chain, and proposes again unless nsteps are done.
sampler_step(accept, nextprop) ==
    /\ sampler.state = "running"
    /\ sampler.todo = {}
    /\ \A w \in DOMAIN work : work[w].stage = "idle"
    /\ Len(sampler.chain) < sampler.nsteps
    /\ LET newpos == [k \in 1..sampler.nwalkers |->
                         IF accept[k] /\ isfinite(sampler.lnp[k])
                         THEN sampler.prop[k] ELSE sampler.pos[k]]
           last == Len(sampler.chain) + 1 = sampler.nsteps
       IN sampler' = [sampler EXCEPT
                        !.pos = newpos,
                        !.chain = Append(@, newpos),
                        !.prop = IF last THEN <<>> ELSE nextprop,
                        !.todo = IF last THEN {} ELSE 1..sampler.nwalkers,
                        !.lnp = <<>>]
    /\ UNCHANGED <<status, self, ctor, exc, call, work, script>>

\* sampler.run_mcmc returns and emcee_orbit returns the sampler (line 216)
emcee_return ==
    /\ sampler.state = "running"
    /\ Len(sampler.chain) = sampler.nsteps
    /\ sampler' = emcee_orbit_result(sampler)
    /\ call' = [call EXCEPT !.returned = TRUE]
    /\ UNCHANGED <<status, self, ctor, exc, work, script>>

\* --------------------------------------- summarisation of the chain (__main__)

\* ndim of the script (line 304); its estimator has n_datasets=2 (line 278)
script_ndim == 7

\* 10 ** x in hundredths, for an integer x (0 below a hundredth)
Pow10(x) == IF x + 2 < 0 THEN 0 ELSE 10 ^ (x + 2)

\* np.percentile(column, q), linear interpolation between order statistics,
\* times 100
Percentile(column, q) ==
    LET sorted == SortSeq(column, LAMBDA a, b : a < b)
        at == q * (Len(sorted) - 1)
        lo == at \div 100
        frac == at % 100
    IN sorted[lo + 1] * (100 - frac) + (IF frac = 0 THEN 0 ELSE sorted[lo + 2] * frac)

\* line 305: _sampler.chain[:, ncut:, :].reshape((-1, ndim)), walker by walker
Flatten(chain, nwalkers, ncut) ==
    LET kept == Len(chain) - ncut
    IN [r \in 1..(nwalkers * kept) |->
           chain[ncut + ((r - 1) % kept) + 1][((r - 1) \div kept) + 1]]

\* lines 303-305: drop the first ncut steps and flatten what is left
script_cut(ncut) ==
    /\ sampler.state = "returned"
    /\ script.pc = "start"
    /\ self.n_datasets = 2 /\ sampler.dim = script_ndim
    /\ ncut \in 0..(Len(sampler.chain) - 1)
    /\ script' = [pc |-> "samples",
                  steps |-> <<"cut", "flatten">>,
                  samples |-> Flatten(sampler.chain, sampler.nwalkers, ncut)]
    /\ UNCHANGED <<status, self, ctor, exc, call, sampler, work>>

\* lines 320-322: columns 0, 1 and 4 of the samples from log to linear
script_linear ==
    /\ script.pc = "samples"
    /\ script' = [script EXCEPT
                    !.pc = "linear",
                    !.steps = Append(@, "exponentiate"),
                    !.samples = [r \in DOMAIN @ |->
                                    [j \in DOMAIN @[r] |->
                                        IF j - 1 \in {0, 1, 4} THEN Pow10(@[r][j]) ELSE @[r][j]]]]
    /\ UNCHANGED <<status, self, ctor, exc, call, sampler, work>>

\* lines 325-327: per parameter the median and the distances to the 84th and
\* the 16th percentile
script_percentiles ==
    /\ script.pc = "linear"
    /\ LET column(j) == [r \in DOMAIN script.samples |-> script.samples[r][j]]
           v(j) == <<Percentile(column(j), 16), Percentile(column(j), 50), Percentile(column(j), 84)>>
       IN script' = [pc |-> "done",
                     steps |-> Append(script.steps, "percentiles"),
                     samples |-> script.samples,
                     mcmc |-> [j \in 1..script_ndim |-> <<v(j)[2], v(j)[3] - v(j)[2], v(j)[2] - v(j)[1]>>]]
    /\ UNCHANGED <<status, self, ctor, exc, call, sampler, work>>

Init ==
    /\ status = "unbuilt"
    /\ self = NoEstimator
    /\ ctor = [n_datasets |-> [isint |-> TRUE, v |-> 0], guess_len |-> 0, vz_pairs |-> 0]
    /\ exc = "none"
    /\ call = NoCall
    /\ sampler = NoSampler
    /\ work = <<>>
    /\ script = NoScript

\* The inputs of the calls, which exist once an estimator does.
Thetas == IF CallerPre THEN ThetaInputs(self) ELSE {}
Reports(maxiter) == IF CallerPre THEN MinimizerResults(self.guess, self.bounds, maxiter) ELSE {}
Draws(nwalkers) == IF CallerPre THEN JitterInputs(5 + self.n_datasets, nwalkers) ELSE {}
Moves(nwalkers) == IF CallerPre THEN Proposals(self, nwalkers) ELSE {}
Walkers == IF sampler.state = "running" THEN 1..sampler.nwalkers ELSE {}

Next ==
    \/ \E n \in NDatasetsInputs :
         \E data \in DataInputs(IF n.v < 0 THEN 0 ELSE n.v) :
           \E guess \in GuessInputs(IF n.v < 0 THEN 0 ELSE n.v) :
             \E bounds_vz \in BoundsVzInputs(IF n.v < 0 THEN 0 ELSE n.v) :
               Construct([i \in DOMAIN data |-> data[i].t],
                         [i \in DOMAIN data |-> data[i].rv],
                         [i \in DOMAIN data |-> data[i].rv_err],
                         guess, bounds_vz, BoundsInput, n)
    \/ \E theta \in Thetas : Call_lnlike(theta)
    \/ \E theta \in Thetas : Call_flat(theta)
    \/ \E theta \in Thetas : Call_lnprob(theta)
    \/ \E maxiter \in 1..MaxIter, disp \in DispInputs :
         \E result \in Reports(maxiter) : ml_orbit(maxiter, disp, result)
    \/ \E nwalkers \in 1..MaxWalkers, nsteps \in 1..MaxSteps, nthreads \in ThreadInputs :
         \E jitter \in Draws(nwalkers), prop \in Moves(nwalkers) :
           emcee_orbit(nwalkers, nsteps, nthreads, jitter, prop)
    \/ \E w \in DOMAIN work : worker_begin(w)
    \/ \E w \in DOMAIN work : worker_lnlike(w)
    \/ \E accept \in [Walkers -> BOOLEAN], nextprop \in Moves(Cardinality(Walkers)) :
         sampler_step(accept, nextprop)
    \/ emcee_return
    \/ \E ncut \in 0..MaxSteps : script_cut(ncut)
    \/ script_linear
    \/ script_percentiles

Spec == Init /\ [][Next]_vars

\* ------------------------------------------------------------------ claims

\* theta has a coordinate on or outside its bound
OnOrOutside(slf, theta) ==
    \E j \in 1..Len(theta) : theta[j] <= slf.bounds[j][1] \/ theta[j] >= slf.bounds[j][2]

\* C1: for a theta with a coordinate on or outside its bound, lnprob returns
\* -inf and neither lnlike nor the orbit model is invoked during the call;
\* nor does a sampler thread ever come to evaluate the likelihood of such a
\* theta.
C1_RejectedBeforeLikelihood ==
    /\ (call.op = "lnprob" /\ OnOrOutside(self, call.theta))
          => call.ret = NegInf /\ call.lnlike_calls = 0 /\ call.orbit_calls = 0
    /\ \A w \in DOMAIN work :
          work[w].stage = "like" => ~OnOrOutside(self, work[w].theta)

\* C1 happens: lnprob was called with a coordinate exactly on its upper bound
\* and every other coordinate strictly inside
C1_Witness ==
    /\ call.op = "lnprob"
    /\ \E j \in 1..Len(call.theta) :
          /\ call.theta[j] = self.bounds[j][2]
          /\ \A i \in 1..Len(call.theta) \ {j} :
                self.bounds[i][1] < call.theta[i] /\ call.theta[i] < self.bounds[i][2]
    /\ call.ret = NegInf

\* C2: flat returns 0.0 exactly when no coordinate is on or outside its bound,
\* -inf otherwise, and nothing else.
C2_FlatIsStrictBox ==
    call.op = "flat" =>
        /\ call.ret \in {Fin(0), NegInf}
        /\ call.ret = Fin(0) <=> ~OnOrOutside(self, call.theta)

\* C2 happens: flat was called with a coordinate equal to its lower bound, and
\* said -inf
C2_Witness ==
    /\ call.op = "flat"
    /\ \E j \in 1..Len(call.theta) : call.theta[j] = self.bounds[j][1]
    /\ call.ret = NegInf

\* C3: for a theta strictly inside all bounds, lnprob returns what lnlike
\* returns for that theta, having evaluated the likelihood once (stated for one
\* dataset, checked for every dataset count).
C3_PosteriorIsLikelihoodInside ==
    (call.op = "lnprob" /\ ~OnOrOutside(self, call.theta)) =>
        /\ call.ret = lnlike(self, call.theta).ret
        /\ call.lnlike_calls = 1
        /\ call.orbit_calls = self.n_datasets

\* C3 happens: lnprob on a single-dataset estimator, theta inside and not the
\* guess, with a likelihood that is not zero
C3_Witness ==
    /\ call.op = "lnprob"
    /\ self.n_datasets = 1
    /\ ~OnOrOutside(self, call.theta)
    /\ call.theta # self.guess
    /\ isfinite(call.ret) /\ call.ret.v # 0

GuessLengthError == "ValueError: guess must have a length equal to 5 + n_datasets"

\* C4: with an n_datasets that is a non-negative int, construction with
\* len(guess) != 5 + n_datasets raises the guess-length error and yields no
\* estimator; with len(guess) == 5 + n_datasets it yields one.  With any other
\* n_datasets construction raises as well.
C4_GuessLengthChecked ==
    status # "unbuilt" =>
        IF ctor.n_datasets.isint /\ ctor.n_datasets.v >= 0
        THEN IF ctor.guess_len # 5 + ctor.n_datasets.v
             THEN status = "raised" /\ exc = GuessLengthError /\ self = NoEstimator
             ELSE status = "built" /\ exc = "none" /\ Len(self.guess) = 5 + self.n_datasets
        ELSE status = "raised" /\ exc # "none" /\ self = NoEstimator

\* C4 happens: five datasets and a guess one too long were refused
C4_Witness ==
    /\ status = "raised"
    /\ ctor.n_datasets = [isint |-> TRUE, v |-> 5]
    /\ ctor.guess_len = 11
    /\ exc = GuessLengthError

\* C5 as stated: every estimator that construction accepts has bounds of
\* length 5 + n_datasets, the length of its guess.
C5_BoundsPairUpAlways ==
    status = "built" =>
        /\ Len(self.bounds) = 5 + self.n_datasets
        /\ Len(self.bounds) = Len(self.guess)

\* C5 amended: an estimator that construction accepts from a bounds_vz of as
\* many pairs as there are datasets (the one pair itself when n_datasets == 1)
\* has bounds of length 5 + n_datasets, the length of its guess: 6 for one
\* dataset, 8 for three.
C5_BoundsPairUpWhenVzDoes ==
    (status = "built" /\ ctor.vz_pairs = self.n_datasets) =>
        /\ Len(self.bounds) = 5 + self.n_datasets
        /\ Len(self.bounds) = Len(self.guess)
        /\ self.n_datasets = 1 => Len(self.bounds) = 6
        /\ self.n_datasets = 3 => Len(self.bounds) = 8
        /\ \A j \in 1..Len(self.bounds) : Len(self.bounds[j]) = 2

\* C5 happens: three datasets, three pairs, eight bounds
C5_Witness ==
    /\ status = "built"
    /\ self.n_datasets = 3
    /\ ctor.vz_pairs = 3
    /\ Len(self.bounds) = 8

\* The estimator of dataset i alone, and the theta that gives it the offset
\* theta[5 + i]
SingleDataset(slf, i) ==
    [n_datasets |-> 1,
     t |-> <<At(slf.t, i)>>, rv |-> <<At(slf.rv, i)>>, rv_err |-> <<At(slf.rv_err, i)>>,
     guess |-> SubSeq(slf.guess, 1, 5) \o <<At(slf.guess, 5 + i)>>,
     bounds |-> SubSeq(slf.bounds, 1, 5) \o <<At(slf.bounds, 5 + i)>>]
ThetaOfDataset(theta, i) == SubSeq(theta, 1, 5) \o <<At(theta, 5 + i)>>

\* C6: with two datasets, lnlike(theta) is the sum of the lnlike of the
\* estimator of the first dataset alone at offset theta[5] and of the second
\* alone at offset theta[6].
C6_LikelihoodAdditive ==
    (call.op = "lnlike" /\ self.n_datasets = 2) =>
        call.ret = FAdd(lnlike(SingleDataset(self, 0), ThetaOfDataset(call.theta, 0)).ret,
                        lnlike(SingleDataset(self, 1), ThetaOfDataset(call.theta, 1)).ret)

\* C6 happens: two datasets of different lengths, evaluated at two different
\* offsets
C6_Witness ==
    /\ call.op = "lnlike"
    /\ self.n_datasets = 2
    /\ Len(self.t[1]) # Len(self.t[2])
    /\ call.theta[6] # call.theta[7]
    /\ call.orbit_calls = 2

\* C7: ml_orbit does not raise whatever the minimizer reports, returns the x
\* it reports, and prints its nit, success and message, as reported, only when
\* disp is True.
C7_MinimizerPassedThrough ==
    call.op = "ml_orbit" =>
        /\ call.raised = "none"
        /\ call.ret = call.result.x
        /\ call.printed # <<>> => call.disp = "True"
        /\ call.disp = "True" =>
              call.printed = <<call.result.nit, call.result.success, call.result.message>>

\* C7 happens: the minimizer gave up away from the guess, and says so
C7_Witness ==
    /\ call.op = "ml_orbit"
    /\ ~call.result.success
    /\ call.result.x # self.guess
    /\ call.ret = call.result.x
    /\ call.disp = "True"

\* C8: once built, the estimator is changed by no step: no call of lnlike,
\* flat, lnprob, ml_orbit or emcee_orbit, and no step of a sampler thread.
C8_EstimatorReadOnly == [][status = "built" => self' = self]_vars

\* C8 happens: two sampler threads are inside lnprob at once
C8_Witness ==
    /\ sampler.state = "running"
    /\ \E w1, w2 \in DOMAIN work :
          w1 # w2 /\ work[w1].stage = "like" /\ work[w2].stage = "like"

C10_ExponentiatedAfterPercentiles ==
    \A i \in 1..Len(script.steps) :
        script.steps[i] = "exponentiate" =>
            \E h \in 1..(i - 1) : script.steps[h] = "percentiles"

====
